---- MODULE Spec2Model ----
(***************************************************************************)
(* Verification model of the Heron wellness classification worker.         *)
(*                                                                         *)
(*   Spec      the daily batch run, ClassificationController.              *)
(*             classify_today_entries, triggered NumRuns times on one      *)
(*             controller (one asyncio event loop, one model_lock).        *)
(*   SpecWeek  the weekly rule engine, WeeklyClassificationService.        *)
(*             classify_and_record_week, applied to bounded sequences of   *)
(*             daily labels.                                               *)
(***************************************************************************)
EXTENDS Integers, Sequences, FiniteSets, Bags, TLC

\* ------------------------------------------------------------------ bounds
NumUsers == 3
NumRuns == 2
MaxLabels == 7

UserIds == 1..NumUsers
Runs == 1..NumRuns
NoRun == 0

\* ClassificationLabel (student_classification_model.py)
Labels == {"Excelling", "Thriving", "Struggling", "InCrisis"}

\* Column attributes declared by the StudentClassification ORM class.
StudentClassificationColumns ==
    {"classification_id", "student_id", "classification", "classified_at"}

\* Keyword arguments StudentClassificationRepository.create hands to the
\* StudentClassification constructor.
CreateKwargs ==
    {"classification_id", "student_id", "classification", "is_flagged",
     "classified_at"}

VARIABLES
    checkins,        \* users with a mood check-in for today's UTC date
    pc,              \* pc[r]: where run r of classify_today_entries stands
    error,           \* error[r]: what made run r raise ("none" otherwise)
    user_ids,        \* user_ids[r]: the batch order of run r
    task,            \* task[r][i]: the await build_model_input(user i) is at
    built,           \* built[r]: the result list asyncio.gather fills
    reordered,       \* reordered[r]: some task finished before an earlier one
    lock,            \* holder of controller.model_lock, NoRun when free
    active,          \* runs whose classify_user call is executing
    clf_results,     \* clf_results[r]: what classify_user returned to run r
    final,           \* final[r]: the list run r returns
    outcome,         \* outcome[r][i]: how the two writes of item i ended
    analytics,       \* bag of StudentAnalytics rows
    classifications, \* bag of StudentClassification rows
    created,         \* calls of classification_repo.create, as submitted
    wk_rows,         \* the student's StudentClassification rows, oldest first
    wk_start,        \* week_start of the call (week_end lies after every row)
    wk_pc,           \* classify_and_record_week: "fetch", "persist", "done"
    wk_local,        \* its locals once the rules are evaluated
    wk_result,       \* the dict it returned
    wk_table,        \* bag of StudentWeeklyClassification rows
    wk_attempts,     \* calls of weekly_repo.create the invocation has made
    ag_journals,     \* _aggregate_wellness_probs: its argument
    ag_pc,           \* "loop", "returned" or "raised"
    ag_i,            \* entries the for loop has gone through
    ag_totals,       \* totals[k], in tenths
    ag_counted,      \* counted
    ag_result,       \* the dict returned: pkey -> sum / count as a fraction
    history,         \* StudentClassification rows of earlier days, per student
    fan_repo,        \* what the controller's classification_repo offers
    fan_start,       \* week_start of classify_weekly_entries (from `days`)
    fan_left,        \* weekly triggers still to come
    fan_pc,          \* classify_weekly_entries: "idle", "tasks", "returned", "raised"
    fan_error,       \* what made it raise ("none" otherwise)
    fan_user_ids,    \* user_ids = list(student_ids)
    fan_task,        \* fan_task[i]: classify_and_record_week of user_ids[i]
    fan_results,     \* the list it returned
    fan_commits,     \* fan_commits[u]: weekly rows inserted for student u
    route            \* the route whose handler is running ("none" before a request)

dailyVars == <<checkins, pc, error, user_ids, task, built, reordered, lock, active,
               clf_results, final, outcome, analytics, classifications,
               created>>
aggVars == <<ag_journals, ag_pc, ag_i, ag_totals, ag_counted, ag_result>>
fanVars == <<history, fan_repo, fan_start, fan_left, fan_pc, fan_error,
             fan_user_ids, fan_task, fan_results, fan_commits>>
weekVars == <<wk_rows, wk_start, wk_pc, wk_local, wk_result, wk_table,
              wk_attempts, aggVars, fanVars>>
vars == <<dailyVars, weekVars, route>>

\* ------------------------------------------------------ today's signals
\* The rows the signal tables hold for today, one fixed scenario per user.

\* gratitude_entries: has_gratitude_entry_for_date(uid, for_date)
GratitudeOf(u) == u % 2 = 1

\* mood_check_ins: the user's (normalised) mood selection
MoodOf(u) ==
    CASE u = 1 -> "Hopeless"
      [] u = 2 -> "Calm"
      [] u = 3 -> "Sad"
      [] OTHER -> "Happy"

\* journal_entries: the averaged wellness probabilities, in percent
ProbsOf(u) == (u * 20) % 100

\* flip_feel: the bucket of the user's sessions, "none" without sessions
FlipfeelOf(u) == IF u = 1 THEN "InCrisis" ELSE "none"

\* _default_flipfeel_pct
DefaultFlipfeel == "none"

\* _compute_flipfeel_pct_from_sessions over the fetched sessions; a raising
\* fetch is replaced by sessions = [] (ok = FALSE)
ComputeFlipfeel(u, ok) == IF ok THEN FlipfeelOf(u) ELSE DefaultFlipfeel

\* build_model_input's return value
ModelInputItem(u, flipOk) ==
    [user_id |-> u,
     model_input |-> [probs |-> ProbsOf(u),
                      gratitude_flag |-> IF GratitudeOf(u) THEN 1 ELSE 0,
                      mood |-> MoodOf(u),
                      flipfeel |-> ComputeFlipfeel(u, flipOk)]]

NoInput == [user_id |-> 0]

\* The trained model: a fixed row-wise function of the feature vector.
Predict(mi) ==
    CASE mi.mood = "Hopeless" -> "InCrisis"
      [] mi.mood = "Sad" -> "Struggling"
      [] mi.mood = "Calm" -> "Thriving"
      [] OTHER -> "Excelling"

\* ClassificationService.classify_user on a list: one result per row, in
\* row order; top_k = 1 keeps the best label only.
ClassifyUser(batch) ==
    [i \in 1..Len(batch) |->
        [prediction |-> Predict(batch[i]),
         probabilities |-> {Predict(batch[i])}]]

Min(a, b) == IF a < b THEN a ELSE b

\* ORDER BY user_id of get_users_mood_check_ins_for_date, then
\* list(mood_by_user.keys())
RECURSIVE SortedSeq(_)
SortedSeq(S) ==
    IF S = {} THEN << >>
    ELSE LET m == CHOOSE x \in S : \A y \in S : x <= y
         IN <<m>> \o SortedSeq(S \ {m})


\* ------------------------------------------------ classify_and_record_week

\* limit=200 of the list_for_student call
LookbackLimit == 200

None == "None"

\* created = None; a created row is held as the one-element tuple of it
NoRow == << >>

\* reason strings, verbatim
ReasonR6 == "R6: <4 valid daily classifications (data anomaly)"
ReasonR1 == "R1: count_in_crisis >= 2"
ReasonR2 == "R2: count_struggling >= 4"
ReasonR3 == "R3: downward trend in last 3 days"
ReasonR4 == "R4: mixed but worrying counts and last is Struggling or InCrisis"
ReasonR5 == "R5: stable improvement (do not flag)"
ReasonPersistError == "persist_error: <exc>"

\* r.startswith("R"), over the strings the function can put in reasons
StartsWithR(reason) ==
    reason \in {ReasonR6, ReasonR1, ReasonR2, ReasonR3, ReasonR4, ReasonR5}

\* str.lower() on the label strings
Lower(l) ==
    CASE l = "Excelling" -> "excelling"
      [] l = "Thriving" -> "thriving"
      [] l = "Struggling" -> "struggling"
      [] l = "InCrisis" -> "incrisis"
      [] OTHER -> l

\* _SEVERITY_ORDER
SeverityOrder(key) ==
    CASE key \in {"Excelling", "excelling"} -> 0
      [] key \in {"Thriving", "thriving"} -> 1
      [] key \in {"Struggling", "struggling"} -> 2
      [] key \in {"InCrisis", "incrisis"} -> 3
      [] OTHER -> -1

\* severity(label) local function; -1 stands for None
Severity(label) ==
    IF label = None THEN -1
    ELSE IF SeverityOrder(label) # -1 THEN SeverityOrder(label)
         ELSE SeverityOrder(Lower(label))

\* _classification_to_str: the enum member's value
ClassificationToStr(c) == c

Reverse(seq) == [i \in 1..Len(seq) |-> seq[Len(seq) + 1 - i]]

\* the student's rows as the table holds them: row k was classified at k
StudentRows(labels) ==
    [k \in 1..Len(labels) |-> [classified_at |-> k, classification |-> labels[k]]]

\* StudentClassificationRepository.list_for_student:
\* ORDER BY classified_at DESC LIMIT limit
\* Mutant: the query orders by classified_at ascending (the oldest rows).
ListForStudentOldest(rows, limit) ==
    SubSeq(rows, 1, Min(limit, Len(rows)))

ListForStudent(rows, limit) ==
    SubSeq(Reverse(rows), 1, Min(limit, Len(rows)))

\* week_entries: items with week_start <= classified_at < week_end
InWindow(it, ws, we) == it.classified_at >= ws /\ it.classified_at < we
WeekEntries(items, ws, we) == SelectSeq(items, LAMBDA it : InWindow(it, ws, we))

\* normalized.sort(key=lambda x: x["date"]): stable, ascending
RECURSIVE SortByDate(_)
SortByDate(seq) ==
    IF seq = << >> THEN << >>
    ELSE LET k == CHOOSE k \in 1..Len(seq) :
                     /\ \A j \in 1..Len(seq) : seq[k].date <= seq[j].date
                     /\ \A j \in 1..(k - 1) : seq[j].date > seq[k].date
             rest == [j \in 1..(Len(seq) - 1) |->
                         IF j < k THEN seq[j] ELSE seq[j + 1]]
         IN <<seq[k]>> \o SortByDate(rest)

Normalized(entries) ==
    SortByDate([k \in 1..Len(entries) |->
                   [date |-> entries[k].classified_at,
                    label |-> ClassificationToStr(entries[k].classification)]])

\* labels = [x["label"] for x in normalized if x["label"] is not None]
LabelsOf(normalized) ==
    LET kept == SelectSeq(normalized, LAMBDA x : x.label # None)
    IN [k \in 1..Len(kept) |-> kept[k].label]

\* Counter(labels)[l]
Counter(labels, l) ==
    Cardinality({k \in 1..Len(labels) : labels[k] = l})

\* sum(1 for l in labels if l.lower() == name)
CountLower(labels, name) ==
    Cardinality({k \in 1..Len(labels) : Lower(labels[k]) = name})

\* Mutant: a tie goes to the earliest record whose label is a candidate.
DominantEarliestTie(normalized, labels) ==
    IF labels = << >> THEN None
    ELSE LET count(l) == Counter(labels, l)
             seen == {labels[k] : k \in 1..Len(labels)}
             most == CHOOSE c \in {count(l) : l \in seen} :
                        \A l \in seen : count(l) <= c
             candidates == {l \in seen : count(l) = most}
             k == CHOOSE k \in 1..Len(normalized) :
                     /\ normalized[k].label \in candidates
                     /\ \A j \in 1..(k - 1) :
                           normalized[j].label \notin candidates
         IN normalized[k].label

\* dominant: Counter(labels), the most common, a tie going to the most
\* recent record whose label is a candidate
Dominant(normalized, labels) ==
    IF labels = << >> THEN None
    ELSE LET count(l) == Counter(labels, l)
             seen == {labels[k] : k \in 1..Len(labels)}
             most == CHOOSE c \in {count(l) : l \in seen} :
                        \A l \in seen : count(l) <= c
             candidates == {l \in seen : count(l) = most}
         IN IF Cardinality(candidates) = 1
            THEN CHOOSE l \in candidates : TRUE
            ELSE LET k == CHOOSE k \in 1..Len(normalized) :
                              /\ normalized[k].label \in candidates
                              /\ \A j \in (k + 1)..Len(normalized) :
                                    normalized[j].label \notin candidates
                 IN normalized[k].label

\* labels[-3:]
Last3(labels) ==
    SubSeq(labels, IF Len(labels) > 3 THEN Len(labels) - 2 ELSE 1, Len(labels))

\* Mutant: the trend test accepts equal severities.
SeverityWorsensOrEqual(a, b) == a <= b

\* `last3_sev[0] < last3_sev[1] < last3_sev[2]`, one comparison of the chain
SeverityWorsens(a, b) == a < b

\* Mutant: R5 keeps the rule trail.
DropRuleReasonsKeepsAll(reasons) == reasons

\* reasons = [r for r in reasons if not r.startswith("R")]
DropRuleReasons(reasons) == SelectSeq(reasons, LAMBDA x : ~StartsWithR(x))

\* The rules, each taking the locals (flag, review_for_missing, reasons) to
\* their values after the rule's `if`.
\* Mutant: four valid days still count as missing data.
RuleR6AtMostFour(st, total_valid_days) ==
    IF total_valid_days <= 4
    THEN [st EXCEPT !.review = TRUE, !.reasons = Append(@, ReasonR6)]
    ELSE st

RuleR6(st, total_valid_days) ==
    IF total_valid_days < 4
    THEN [st EXCEPT !.review = TRUE, !.reasons = Append(@, ReasonR6)]
    ELSE st

\* Mutant: the reason is put at the head of the list (reasons.insert(0, ...)).
RuleR1Prepends(st, count_in_crisis) ==
    IF count_in_crisis >= 2
    THEN [st EXCEPT !.flag = TRUE, !.reasons = <<ReasonR1>> \o @]
    ELSE st

RuleR1(st, count_in_crisis) ==
    IF count_in_crisis >= 2
    THEN [st EXCEPT !.flag = TRUE, !.reasons = Append(@, ReasonR1)]
    ELSE st

RuleR2(st, count_struggling) ==
    IF count_struggling >= 4
    THEN [st EXCEPT !.flag = TRUE, !.reasons = Append(@, ReasonR2)]
    ELSE st

RuleR3(st, last3_sev) ==
    IF /\ Len(last3_sev) = 3
       /\ \A k \in 1..3 : last3_sev[k] # -1
       /\ SeverityWorsens(last3_sev[1], last3_sev[2])
       /\ SeverityWorsens(last3_sev[2], last3_sev[3])
    THEN [st EXCEPT !.flag = TRUE, !.reasons = Append(@, ReasonR3)]
    ELSE st

\* Mutant: R4 looks at the counts only, not at the last label.
RuleR4IgnoresLast(st, count_in_crisis, count_struggling, last3, labels) ==
    IF count_in_crisis + count_struggling >= 3
    THEN [st EXCEPT !.flag = TRUE, !.reasons = Append(@, ReasonR4)]
    ELSE st

RuleR4(st, count_in_crisis, count_struggling, last3, labels) ==
    IF count_in_crisis + count_struggling >= 3
    THEN LET last_label == IF last3 # << >> THEN last3[Len(last3)]
                           ELSE IF labels # << >> THEN labels[Len(labels)]
                           ELSE None
         IN IF last_label # None /\ Lower(last_label) \in {"struggling", "incrisis"}
            THEN [st EXCEPT !.flag = TRUE, !.reasons = Append(@, ReasonR4)]
            ELSE st
    ELSE st

RuleR5(st, last3) ==
    IF /\ Len(last3) = 3
       /\ \A k \in 1..3 : last3[k] # None /\ Lower(last3[k]) \in {"thriving", "excelling"}
    THEN [st EXCEPT !.flag = FALSE,
                    !.reasons = Append(DropRuleReasons(@), ReasonR5)]
    ELSE st

\* everything between the return of list_for_student and the call of
\* weekly_repo.create
WeekLocals(items, ws, we) ==
    LET normalized == Normalized(WeekEntries(items, ws, we))
        labels == LabelsOf(normalized)
        count_in_crisis == CountLower(labels, Lower("incrisis"))
        count_struggling == CountLower(labels, Lower("struggling"))
        total_valid_days == Len(labels)
        last3 == Last3(labels)
        last3_sev == [k \in 1..Len(last3) |-> Severity(last3[k])]
        s0 == [flag |-> FALSE, review |-> FALSE, reasons |-> << >>]
        s6 == RuleR6(s0, total_valid_days)
        s1 == RuleR1(s6, count_in_crisis)
        s2 == RuleR2(s1, count_struggling)
        s3 == RuleR3(s2, last3_sev)
        s4 == RuleR4(s3, count_in_crisis, count_struggling, last3, labels)
        s5 == RuleR5(s4, last3)
    IN [dominant |-> Dominant(normalized, labels),
        count_in_crisis |-> count_in_crisis,
        count_struggling |-> count_struggling,
        total_valid_days |-> total_valid_days,
        last3 |-> last3,
        flag |-> s5.flag,
        review |-> s5.review,
        reasons |-> s5.reasons]

\* the dict the function returns
WeekResult(loc, reasons, row) ==
    [dominant_classification |-> loc.dominant,
     count_in_crisis |-> loc.count_in_crisis,
     count_struggling |-> loc.count_struggling,
     total_valid_days |-> loc.total_valid_days,
     last_3_labels |-> loc.last3,
     flagged |-> loc.flag,
     review_for_missing |-> loc.review,
     reasons |-> reasons,
     persisted_row |-> row]

\* week_end of the call
WeekEnd == MaxLabels + 1

\* is_flagged of StudentWeeklyClassification: server_default="false"
WeeklyServerDefaultIsFlagged == FALSE

\* the row StudentWeeklyClassificationRepository.create inserts: the INSERT
\* names weekly_classification_id, student_id, week_start, week_end,
\* dominant_classification and classified_at; is_flagged is left to the
\* column's server default
WeeklyRowOf(student_id, week_start, loc) ==
    [student_id |-> student_id,
     week_start |-> week_start, week_end |-> WeekEnd,
     dominant_classification |-> loc.dominant,
     is_flagged |-> WeeklyServerDefaultIsFlagged]

\* the row of the one student of SpecWeek
WeeklyRow(loc) == WeeklyRowOf(1, wk_start, loc)

\* Mutant: the insert replaces the student's row of the same week_start.
UpsertWeekly(tbl, row) ==
    LET kept == {x \in BagToSet(tbl) : ~(/\ x.student_id = row.student_id
                                          /\ x.week_start = row.week_start)}
    IN [x \in kept |-> tbl[x]] (+) SetToBag({row})

\* INSERT INTO student_weekly_classification ... RETURNING *
InsertWeekly(tbl, row) == tbl (+) SetToBag({row})

\* `items = await self.classification_repo.list_for_student(...)` returns
WeekFetchReturns ==
    /\ wk_pc = "fetch"
    /\ wk_local' = WeekLocals(ListForStudent(StudentRows(wk_rows), LookbackLimit),
                              wk_start, WeekEnd)
    /\ wk_pc' = "persist"
    /\ UNCHANGED <<wk_rows, wk_start, wk_result, wk_table, wk_attempts, aggVars,
                   fanVars, route, dailyVars>>

\* list_for_student raises: nothing in the function catches it
WeekFetchRaises ==
    /\ wk_pc = "fetch"
    /\ wk_pc' = "raised"
    /\ UNCHANGED <<wk_rows, wk_start, wk_local, wk_result, wk_table, wk_attempts, aggVars,
                   fanVars, route, dailyVars>>

\* `created = await self.weekly_repo.create(...)` returns the inserted row
WeekPersistCommits ==
    /\ wk_pc = "persist"
    /\ wk_attempts' = wk_attempts + 1
    /\ wk_table' = InsertWeekly(wk_table, WeeklyRow(wk_local))
    /\ wk_result' = WeekResult(wk_local, wk_local.reasons, <<WeeklyRow(wk_local)>>)
    /\ wk_pc' = "done"
    /\ UNCHANGED <<wk_rows, wk_start, wk_local, aggVars, fanVars, route, dailyVars>>

\* Mutant: a failed insert also withdraws the verdict.
ExceptWeekPersistDropsVerdict(loc) ==
    WeekResult([loc EXCEPT !.flag = FALSE, !.dominant = None],
               Append(loc.reasons, ReasonPersistError), NoRow)

\* `except Exception as exc: created = None; reasons.append(...)`, then the
\* result dict built from the same locals
ExceptWeekPersist(loc) ==
    WeekResult(loc, Append(loc.reasons, ReasonPersistError), NoRow)

\* weekly_repo.create raises
WeekPersistRaises ==
    /\ wk_pc = "persist"
    /\ wk_attempts' = wk_attempts + 1
    /\ wk_result' = ExceptWeekPersist(wk_local)
    /\ wk_pc' = "done"
    /\ UNCHANGED <<wk_rows, wk_start, wk_local, wk_table, aggVars, fanVars,
                   route, dailyVars>>

\* ------------------------------------------------- classify_today_entries

\* Mutant: the early return for an empty day is missing.
NoCheckInsNeverReturns(rows) == FALSE

\* `if not mood_rows: return []`
NoCheckIns(rows) == rows = << >>

\* Mutant: results are collected in completion order (as with
\* asyncio.as_completed), the first free slot taking the next result.
GatherStoreCompletionOrder(res, i, item) ==
    LET k == CHOOSE k \in 1..Len(res) :
                 /\ res[k] = NoInput
                 /\ \A j \in 1..(k - 1) : res[j] # NoInput
    IN [res EXCEPT ![k] = item]

\* asyncio.gather puts each awaitable's result at the position of the
\* awaitable in its argument list, whatever the completion order.
GatherStore(res, i, item) == [res EXCEPT ![i] = item]

\* Mutant: the classifier call is not guarded by the lock.
CanAcquireUnguarded == TRUE

\* asyncio.Lock: `async with self.model_lock` proceeds only when unlocked.
CanAcquire == lock = NoRun

\* Mutant: the lock is released only when the body ended normally
\* (acquire() and release() around the call, without try/finally).
AExitOnlyOnSuccess(r, exc) == IF exc THEN r ELSE NoRun

\* Mutant: the lock stays with the run while it persists its results.
AExitOnlyOnFailure(r, exc) == IF exc THEN NoRun ELSE r

\* asyncio.Lock.__aexit__: leaving `async with self.model_lock` releases
\* the lock, whether the body returned or raised (exc); the holder of the
\* lock afterwards
AExit(r, exc) == NoRun

\* input_batch = [item["model_input"] for item in per_user_inputs]
InputBatch(items) == [i \in 1..Len(items) |-> items[i].model_input]

\* _to_native on a label string returns the object itself
ToNative(x) == x

\* final_item = {**item, "prediction": ..., "probabilities": ...}
FinalItem(item, clf) ==
    [user_id |-> item.user_id,
     model_input |-> item.model_input,
     prediction |-> ToNative(clf.prediction),
     probabilities |-> ToNative(clf.probabilities)]

\* is_flagged local of the loop body (computed, then not used)
IsFlagged(prediction) == prediction = "InCrisis" \/ prediction = "Struggling"

\* is_flagged parameter default of StudentClassificationRepository.create
DefaultIsFlagged == FALSE

\* self.classification_repo.create(student_uuid, prediction)
CreateCall(r, i, item) ==
    [run |-> r, idx |-> i, student_id |-> item.user_id,
     classification |-> item.prediction, is_flagged |-> DefaultIsFlagged]

\* analytics_kwargs / CreateStudentAnalytics(**analytics_kwargs): the
\* payload has no student id
AnalyticsPayload(item) ==
    [gratitude_flag |-> item.model_input.gratitude_flag = 1,
     probs |-> item.model_input.probs,
     mood |-> item.model_input.mood,
     flipfeel |-> item.model_input.flipfeel,
     classification |-> item.prediction]

\* StudentClassificationRepository._to_enum accepts exactly the enum's
\* values; the declarative constructor of StudentClassification accepts
\* only keywords that are attributes of the class.  Outcomes of create:
CreateOutcomes(label) ==
    IF label \in Labels /\ CreateKwargs \subseteq StudentClassificationColumns
    THEN {"commit", "raise"}
    ELSE {"raise"}

\* `for item, clf in zip(per_user_inputs, clf_results)`: reach item i with
\* fin as the list built so far, or leave the loop and return
EnterItem(r, i, res, fin) ==
    IF i > Min(Len(built[r]), Len(res))
    THEN /\ pc' = [pc EXCEPT ![r] = "returned"]
         /\ final' = [final EXCEPT ![r] = fin]
    ELSE /\ pc' = [pc EXCEPT ![r] = "analytics"]
         /\ final' = [final EXCEPT ![r] =
                          Append(fin, FinalItem(built[r][i], res[i]))]

\* Mutant: a failed write ends the run with the exception.
ExceptPersistReraises(r, out) ==
    /\ outcome' = [outcome EXCEPT ![r] = out]
    /\ pc' = [pc EXCEPT ![r] = "raised"]
    /\ final' = final

\* Mutant: a failed write takes the item out of the returned list.
ExceptPersistDropsResult(r, out) ==
    /\ outcome' = [outcome EXCEPT ![r] = out]
    /\ EnterItem(r, Len(out) + 1, clf_results[r],
                 SubSeq(final[r], 1, Len(final[r]) - 1))

\* `except Exception as exc: logger.exception(...)`: the item's writes
\* ended as out says; the loop goes on with the next item
ExceptPersist(r, out) ==
    /\ outcome' = [outcome EXCEPT ![r] = out]
    /\ EnterItem(r, Len(out) + 1, clf_results[r], final[r])

\* Mutant: the classifier's exception is swallowed and the run returns.
ClassifierFailureSwallowed(r) ==
    /\ pc' = [pc EXCEPT ![r] = "returned"]
    /\ UNCHANGED <<final, clf_results>>

\* the classifier call raised inside `async with`: nothing catches it
ClassifierFailure(r) ==
    /\ pc' = [pc EXCEPT ![r] = "raised"]
    /\ UNCHANGED <<final, clf_results>>

Start(r) ==
    /\ pc[r] = "idle"
    /\ UNCHANGED reordered
    /\ LET rows == SortedSeq(checkins)
       IN IF NoCheckIns(rows)
          THEN /\ pc' = [pc EXCEPT ![r] = "returned"]
               /\ UNCHANGED <<user_ids, task, built>>
          ELSE /\ pc' = [pc EXCEPT ![r] = "building"]
               /\ user_ids' = [user_ids EXCEPT ![r] = rows]
               /\ task' = [task EXCEPT ![r] =
                              [i \in 1..Len(rows) |-> "journal"]]
               /\ built' = [built EXCEPT ![r] =
                               [i \in 1..Len(rows) |-> NoInput]]
    /\ UNCHANGED <<checkins, error, lock, active, clf_results, final,
                   outcome, analytics, classifications, created, weekVars, route>>

MoodFetchRaises(r) ==
    /\ pc[r] = "idle"
    /\ pc' = [pc EXCEPT ![r] = "raised"]
    /\ error' = [error EXCEPT ![r] = "checkins"]
    /\ UNCHANGED <<checkins, user_ids, task, built, reordered, lock, active,
                   clf_results, final, outcome, analytics, classifications,
                   created, weekVars, route>>

TaskStep(r, i, from, to) ==
    /\ pc[r] = "building"
    /\ i \in 1..Len(task[r])
    /\ task[r][i] = from
    /\ task' = [task EXCEPT ![r][i] = to]
    /\ UNCHANGED <<checkins, pc, error, user_ids, lock, active,
                   clf_results, final, outcome, analytics, classifications,
                   created, weekVars, route>>

\* an exception of one awaitable is raised by gather to its awaiter
TaskRaises(r, i, from, what) ==
    /\ pc[r] = "building"
    /\ i \in 1..Len(task[r])
    /\ task[r][i] = from
    /\ pc' = [pc EXCEPT ![r] = "raised"]
    /\ error' = [error EXCEPT ![r] = what]
    /\ UNCHANGED <<checkins, user_ids, task, built, reordered, lock, active,
                   clf_results, final, outcome, analytics, classifications,
                   created, weekVars, route>>

JournalReturns(r, i) ==
    TaskStep(r, i, "journal", "gratitude") /\ UNCHANGED <<built, reordered>>

JournalRaises(r, i) == TaskRaises(r, i, "journal", "journal")

GratitudeReturns(r, i) ==
    TaskStep(r, i, "gratitude", "flipfeel") /\ UNCHANGED <<built, reordered>>

GratitudeRaises(r, i) == TaskRaises(r, i, "gratitude", "gratitude")

\* the task of position i returns while an earlier position is still pending
OutOfOrder(r, i) == \E j \in 1..(i - 1) : task[r][j] # "done"

FlipfeelReturns(r, i) ==
    /\ TaskStep(r, i, "flipfeel", "done")
    /\ reordered' = [reordered EXCEPT ![r] = @ \/ OutOfOrder(r, i)]
    /\ built' = [built EXCEPT ![r] =
                    GatherStore(@, i, ModelInputItem(user_ids[r][i], TRUE))]

FlipfeelRaises(r, i) ==
    /\ TaskStep(r, i, "flipfeel", "done")
    /\ reordered' = [reordered EXCEPT ![r] = @ \/ OutOfOrder(r, i)]
    /\ built' = [built EXCEPT ![r] =
                    GatherStore(@, i, ModelInputItem(user_ids[r][i], FALSE))]

\* Mutant: the run goes on as soon as one user's input is built (as with
\* asyncio.wait(..., return_when=FIRST_COMPLETED)).
GatherReturnsFirstCompleted(r) ==
    /\ pc[r] = "building"
    /\ \E i \in 1..Len(task[r]) : task[r][i] = "done"
    /\ pc' = [pc EXCEPT ![r] = "wantlock"]
    /\ UNCHANGED <<checkins, error, user_ids, task, built, reordered, lock, active,
                   clf_results, final, outcome, analytics, classifications,
                   created, weekVars, route>>

GatherReturns(r) ==
    /\ pc[r] = "building"
    /\ \A i \in 1..Len(task[r]) : task[r][i] = "done"
    /\ pc' = [pc EXCEPT ![r] = "wantlock"]
    /\ UNCHANGED <<checkins, error, user_ids, task, built, reordered, lock, active,
                   clf_results, final, outcome, analytics, classifications,
                   created, weekVars, route>>

AcquireLock(r) ==
    /\ pc[r] = "wantlock"
    /\ CanAcquire
    /\ lock' = r
    /\ active' = active \cup {r}
    /\ pc' = [pc EXCEPT ![r] = "classifying"]
    /\ UNCHANGED <<checkins, error, user_ids, task, built, reordered,
                   clf_results,
                   final, outcome, analytics, classifications, created,
                   weekVars, route>>

ClassifierReturns(r) ==
    /\ pc[r] = "classifying"
    /\ lock' = AExit(r, FALSE)
    /\ active' = active \ {r}
    /\ LET res == ClassifyUser(InputBatch(built[r]))
       IN /\ clf_results' = [clf_results EXCEPT ![r] = res]
          /\ EnterItem(r, 1, res, << >>)
    /\ UNCHANGED <<checkins, error, user_ids, task, built, reordered,
                   outcome,
                   analytics, classifications, created, weekVars, route>>

ClassifierRaises(r) ==
    /\ pc[r] = "classifying"
    /\ lock' = AExit(r, TRUE)
    /\ active' = active \ {r}
    /\ error' = [error EXCEPT ![r] = "classifier"]
    /\ ClassifierFailure(r)
    /\ UNCHANGED <<checkins, user_ids, task, built, reordered, outcome, analytics,
                   classifications, created, weekVars, route>>

\* index and final_item of the item whose writes are under way
CurIdx(r) == Len(outcome[r]) + 1
CurItem(r) == FinalItem(built[r][CurIdx(r)], clf_results[r][CurIdx(r)])

\* Mutant: the table is rewritten to hold the new row only.
SessionAddReplacing(tbl, row) == SetToBag({row})

\* session.add(inst); await session.commit(): one more row
SessionAdd(tbl, row) == tbl (+) SetToBag({row})

AnalyticsCommits(r) ==
    /\ pc[r] = "analytics"
    /\ analytics' = SessionAdd(analytics, AnalyticsPayload(CurItem(r)))
    /\ created' = created \cup {CreateCall(r, CurIdx(r), CurItem(r))}
    /\ pc' = [pc EXCEPT ![r] = "classification"]
    /\ UNCHANGED <<checkins, error, user_ids, task, built, reordered, lock, active,
                   clf_results, final, outcome, classifications, weekVars, route>>

\* Mutant: the classification write is issued although the analytics write
\* raised (each write in a try of its own).
AnalyticsRaisesStillCreates(r) ==
    /\ pc[r] = "analytics"
    /\ created' = created \cup {CreateCall(r, CurIdx(r), CurItem(r))}
    /\ ExceptPersist(r, Append(outcome[r],
                        [analytics |-> "raised", classification |-> "raised"]))
    /\ UNCHANGED <<checkins, error, user_ids, task, built, reordered, lock, active,
                   clf_results, analytics, classifications, weekVars, route>>

AnalyticsRaises(r) ==
    /\ pc[r] = "analytics"
    /\ ExceptPersist(r, Append(outcome[r],
                        [analytics |-> "raised", classification |-> "skipped"]))
    /\ UNCHANGED <<checkins, error, user_ids, task, built, reordered, lock, active,
                   clf_results, analytics, classifications, created,
                   weekVars, route>>

ClassificationCreate(r) ==
    /\ pc[r] = "classification"
    /\ \E o \in CreateOutcomes(CurItem(r).prediction) :
          IF o = "commit"
          THEN /\ classifications' = SessionAdd(classifications,
                     [student_id |-> CurItem(r).user_id,
                      classification |-> CurItem(r).prediction])
               /\ outcome' = [outcome EXCEPT ![r] = Append(@,
                     [analytics |-> "ok", classification |-> "ok"])]
               /\ EnterItem(r, CurIdx(r) + 1, clf_results[r], final[r])
          ELSE /\ ExceptPersist(r, Append(outcome[r],
                     [analytics |-> "ok", classification |-> "raised"]))
               /\ UNCHANGED classifications
    /\ UNCHANGED <<checkins, error, user_ids, task, built, reordered, lock, active,
                   clf_results, analytics, created, weekVars, route>>

DailyInit ==
    /\ checkins \in SUBSET UserIds
    /\ pc = [r \in Runs |-> "idle"]
    /\ error = [r \in Runs |-> "none"]
    /\ user_ids = [r \in Runs |-> << >>]
    /\ task = [r \in Runs |-> << >>]
    /\ built = [r \in Runs |-> << >>]
    /\ reordered = [r \in Runs |-> FALSE]
    /\ lock = NoRun
    /\ active = {}
    /\ clf_results = [r \in Runs |-> << >>]
    /\ final = [r \in Runs |-> << >>]
    /\ outcome = [r \in Runs |-> << >>]
    /\ analytics = EmptyBag
    /\ classifications = EmptyBag
    /\ created = {}

\* classify_weekly_entries never triggered, no rows of earlier days
FanIdle ==
    /\ history = << >>
    /\ fan_repo = "shipped"
    /\ fan_start = 1
    /\ fan_left = 0
    /\ fan_pc = "idle"
    /\ fan_error = "none"
    /\ fan_user_ids = << >>
    /\ fan_task = << >>
    /\ fan_results = << >>
    /\ fan_commits = [u \in UserIds |-> 0]
    /\ route = "none"

\* no call of _aggregate_wellness_probs under way
AggIdle ==
    /\ ag_journals = << >>
    /\ ag_pc = "returned"
    /\ ag_i = 0
    /\ ag_totals = << >>
    /\ ag_counted = 0
    /\ ag_result = << >>

WeekIdle ==
    /\ AggIdle
    /\ FanIdle
    /\ wk_rows = << >>
    /\ wk_start = 1
    /\ wk_pc = "idle"
    /\ wk_local = << >>
    /\ wk_result = << >>
    /\ wk_table = EmptyBag
    /\ wk_attempts = 0

Init == DailyInit /\ WeekIdle

Next ==
    \E r \in Runs :
        \/ Start(r)
        \/ MoodFetchRaises(r)
        \/ GatherReturns(r)
        \/ AcquireLock(r)
        \/ ClassifierReturns(r)
        \/ ClassifierRaises(r)
        \/ AnalyticsCommits(r)
        \/ AnalyticsRaises(r)
        \/ ClassificationCreate(r)
        \/ \E i \in 1..NumUsers :
              \/ JournalReturns(r, i)
              \/ JournalRaises(r, i)
              \/ GratitudeReturns(r, i)
              \/ GratitudeRaises(r, i)
              \/ FlipfeelReturns(r, i)
              \/ FlipfeelRaises(r, i)

Spec == Init /\ [][Next]_vars

\* The event loop resumes every coroutine that is ready, and every awaited
\* fetch, classifier call and database write ends (returns or raises): a
\* step that stays possible is eventually taken.
SpecLive == Init /\ [][Next]_vars /\ WF_vars(Next)

\* sequences over S of length at most n
BoundedSeq(S, n) == UNION {[1..k -> S] : k \in 0..n}

\* ----------------------------------------------- _aggregate_wellness_probs

MaxJournals == 2

\* ALL_LABELS, LABEL_TO_PKEY
ALL_LABELS == {"L1", "L2", "L3", "L4", "L5"}
LABEL_TO_PKEY(k) ==
    CASE k = "L1" -> "p_anxiety"
      [] k = "L2" -> "p_normal"
      [] k = "L3" -> "p_depressed"
      [] k = "L4" -> "p_suicidal"
      [] k = "L5" -> "p_stressed"
PKeys == {LABEL_TO_PKEY(k) : k \in ALL_LABELS}

\* The wellness_state payloads the function is applied to.  A value under a
\* label key is a number (in tenths) or something float() rejects; the
\* mappings carry any of the keys L1, L3.
Readings == {-2, 0, 2, 6, 8}
WellnessValues ==
    {[num |-> TRUE, v |-> x] : x \in Readings} \cup {[num |-> FALSE, v |-> 0]}
WellnessDicts == UNION {[K -> WellnessValues] : K \in SUBSET {"L1", "L3"}}

\* item["wellness_state"]: absent/None, a mapping, or a str holding the
\* JSON text of a mapping, the JSON text of an array, or no JSON at all
WellnessStates ==
    {[kind |-> "none", form |-> "none", map |-> << >>]}
    \cup {[kind |-> "dict", form |-> "object", map |-> d] : d \in WellnessDicts}
    \cup {[kind |-> "str", form |-> "object", map |-> d] : d \in WellnessDicts}
    \cup {[kind |-> "str", form |-> f, map |-> << >>] : f \in {"array", "malformed"}}

\* Mutant: undecodable text comes back as a non-mapping value.
JsonLoadsLenient(text) ==
    IF text.form = "object" THEN [is_dict |-> TRUE, map |-> text.map]
    ELSE [is_dict |-> FALSE, map |-> << >>]

\* json.loads inside `try ... except json.JSONDecodeError: ws = {}`: the
\* decoded value, a decode error giving the empty mapping
JsonLoads(text) ==
    CASE text.form = "object" -> [is_dict |-> TRUE, map |-> text.map]
      [] text.form = "array" -> [is_dict |-> FALSE, map |-> << >>]
      [] OTHER -> [is_dict |-> TRUE, map |-> << >>]

\* ws as the inner loop sees it
WsOf(item) ==
    IF item.kind = "str" THEN JsonLoads(item)
    ELSE [is_dict |-> TRUE, map |-> item.map]

\* `v = ws.get(k)`, `float(v)` succeeding
IsNumeric(ws, k) == k \in DOMAIN ws.map /\ ws.map[k].num

\* Mutant: every entry is counted.
AnyNumEveryEntry(ws) == TRUE

\* any_num after the inner loop
AnyNum(ws) == \E k \in ALL_LABELS : IsNumeric(ws, k)

\* totals[k] / counted if counted else 0.0, as the fraction n / d of tenths
Average(total, counted) ==
    IF counted # 0 THEN [n |-> total, d |-> counted] ELSE [n |-> 0, d |-> 1]

\* one iteration of `for item in journals` over a mapping
AggEntry ==
    /\ ag_pc = "loop"
    /\ ag_i < Len(ag_journals)
    /\ LET ws == WsOf(ag_journals[ag_i + 1])
       IN /\ ws.is_dict
          /\ ag_totals' = [k \in ALL_LABELS |->
                              ag_totals[k] + (IF IsNumeric(ws, k)
                                              THEN ws.map[k].v ELSE 0)]
          /\ ag_counted' = ag_counted + (IF AnyNum(ws) THEN 1 ELSE 0)
    /\ ag_i' = ag_i + 1
    /\ UNCHANGED <<ag_journals, ag_pc, ag_result, route, dailyVars,
                   wk_rows, wk_start, wk_pc, wk_local, wk_result, wk_table,
                   wk_attempts, fanVars>>

\* `ws.get(k)` on a decoded value that is no mapping: AttributeError
AggEntryRaises ==
    /\ ag_pc = "loop"
    /\ ag_i < Len(ag_journals)
    /\ ~WsOf(ag_journals[ag_i + 1]).is_dict
    /\ ag_pc' = "raised"
    /\ UNCHANGED <<ag_journals, ag_i, ag_totals, ag_counted, ag_result, route, dailyVars,
                   wk_rows, wk_start, wk_pc, wk_local, wk_result, wk_table,
                   wk_attempts, fanVars>>

\* avgs, then the dict keyed by LABEL_TO_PKEY
AggReturn ==
    /\ ag_pc = "loop"
    /\ ag_i = Len(ag_journals)
    /\ ag_result' = [pk \in PKeys |->
                        LET k == CHOOSE k \in ALL_LABELS : LABEL_TO_PKEY(k) = pk
                        IN Average(ag_totals[k], ag_counted)]
    /\ ag_pc' = "returned"
    /\ UNCHANGED <<ag_journals, ag_i, ag_totals, ag_counted, route, dailyVars,
                   wk_rows, wk_start, wk_pc, wk_local, wk_result, wk_table,
                   wk_attempts, fanVars>>

\* _aggregate_wellness_probs called with any list of at most MaxJournals
\* entries; nothing else runs
AggInit ==
    /\ ag_journals \in BoundedSeq(WellnessStates, MaxJournals)
    /\ ag_pc = "loop"
    /\ ag_i = 0
    /\ ag_totals = [k \in ALL_LABELS |-> 0]
    /\ ag_counted = 0
    /\ ag_result = << >>
    /\ DailyInit
    /\ checkins = {}
    /\ wk_rows = << >> /\ wk_start = 1 /\ wk_pc = "idle" /\ wk_local = << >>
    /\ wk_result = << >> /\ wk_table = EmptyBag /\ wk_attempts = 0
    /\ FanIdle

AggNext == AggEntry \/ AggEntryRaises \/ AggReturn

SpecAgg == AggInit /\ [][AggNext]_vars

\* ------------------------------------------------- classify_weekly_entries

NumStudents == 2
MaxHistory == 2
NumWeeklyRuns == 2

Students == 1..NumStudents

\* the APIs a classification repository can have: the shipped
\* StudentClassificationRepository has neither list_between nor list_all
RepoApis == {"shipped", "list_between", "list_all"}

\* end_date: the day of the call; week_end is the day after
Today == WeekEnd - 1

HistoryOf(u) == IF u \in DOMAIN history THEN history[u] ELSE << >>

RECURSIVE Repeat(_, _)
Repeat(x, n) == IF n = 0 THEN << >> ELSE <<x>> \o Repeat(x, n - 1)

\* the rows the daily runs of today have stored for student u
RECURSIVE TodayRows(_, _)
TodayRows(u, ls) ==
    IF ls = {} THEN << >>
    ELSE LET l == CHOOSE l \in ls : TRUE
             n == CopiesIn([student_id |-> u, classification |-> l],
                           classifications)
         IN Repeat([classified_at |-> Today, classification |-> l], n)
            \o TodayRows(u, ls \ {l})

\* the student_classification rows of student u, oldest first
TableRows(u) == StudentRows(HistoryOf(u)) \o TodayRows(u, Labels)

\* classifications_in_range: list_between(week_start, week_end), or
\* list_all filtered by week_start <= classified_at < week_end;
\* student_ids: the distinct student ids of those rows
StudentIdsInRange(ws, we) ==
    {u \in UserIds : \E k \in 1..Len(TableRows(u)) :
                        InWindow(TableRows(u)[k], ws, we)}

\* list(student_ids): the ids in some order
Orders(S) ==
    {o \in [1..Cardinality(S) -> S] :
        \A i, j \in 1..Cardinality(S) : i # j => o[i] # o[j]}

\* a task of the fan-out before its first await
NewTask == [pc |-> "fetch", local |-> << >>, result |-> << >>]

\* results: the raw results that are no exception, in user_ids order
RECURSIVE KeepResults(_, _)
KeepResults(tasks, i) ==
    IF i > Len(tasks) THEN << >>
    ELSE (IF tasks[i].pc = "raised" THEN << >> ELSE <<tasks[i].result>>)
         \o KeepResults(tasks, i + 1)

\* Mutant: gather without return_exceptions, the first exception of a task
\* being raised to the awaiter.
TaskExceptionPropagates ==
    /\ fan_pc' = "raised"
    /\ fan_error' = "student"

\* asyncio.gather(*tasks, return_exceptions=True): the exception of a task
\* is its raw result, the awaiter goes on waiting for the others
TaskException ==
    /\ fan_pc' = fan_pc
    /\ fan_error' = fan_error

\* list_between and list_all both raise AttributeError: RuntimeError
FanRepoLacksApi ==
    /\ fan_pc \in {"idle", "returned", "raised"}
    /\ fan_left > 0
    /\ fan_repo = "shipped"
    /\ fan_left' = fan_left - 1
    /\ fan_pc' = "raised"
    /\ fan_error' = "runtime"
    /\ fan_user_ids' = << >> /\ fan_task' = << >> /\ fan_results' = << >>
    /\ UNCHANGED <<history, fan_repo, fan_start, fan_commits, route, dailyVars, aggVars,
                   wk_rows, wk_start, wk_pc, wk_local, wk_result, wk_table,
                   wk_attempts>>

\* the repository's list query raises something other than AttributeError
FanListRaises ==
    /\ fan_pc \in {"idle", "returned", "raised"}
    /\ fan_left > 0
    /\ fan_repo # "shipped"
    /\ fan_left' = fan_left - 1
    /\ fan_pc' = "raised"
    /\ fan_error' = "list"
    /\ fan_user_ids' = << >> /\ fan_task' = << >> /\ fan_results' = << >>
    /\ UNCHANGED <<history, fan_repo, fan_start, fan_commits, route, dailyVars, aggVars,
                   wk_rows, wk_start, wk_pc, wk_local, wk_result, wk_table,
                   wk_attempts>>

\* the rows of the window are obtained: `return []` for none, else one
\* classify_and_record_week coroutine per student id, handed to gather
FanStart ==
    /\ fan_pc \in {"idle", "returned", "raised"}
    /\ fan_left > 0
    /\ fan_repo # "shipped"
    /\ fan_left' = fan_left - 1
    /\ fan_error' = "none"
    /\ fan_results' = << >>
    /\ LET ids == StudentIdsInRange(fan_start, WeekEnd)
       IN IF ids = {}
          THEN /\ fan_pc' = "returned"
               /\ fan_user_ids' = << >>
               /\ fan_task' = << >>
          ELSE /\ fan_pc' = "tasks"
               /\ fan_user_ids' \in Orders(ids)
               /\ fan_task' = [i \in 1..Cardinality(ids) |-> NewTask]
    /\ UNCHANGED <<history, fan_repo, fan_start, fan_commits, route, dailyVars, aggVars,
                   wk_rows, wk_start, wk_pc, wk_local, wk_result, wk_table,
                   wk_attempts>>

\* task i: list_for_student returns, the rules are evaluated
FanTaskFetchReturns(i) ==
    /\ fan_pc = "tasks"
    /\ i \in 1..Len(fan_task)
    /\ fan_task[i].pc = "fetch"
    /\ fan_task' = [fan_task EXCEPT ![i] =
          [pc |-> "persist",
           local |-> WeekLocals(ListForStudent(TableRows(fan_user_ids[i]),
                                               LookbackLimit),
                                fan_start, WeekEnd),
           result |-> << >>]]
    /\ UNCHANGED <<history, fan_repo, fan_start, fan_left, fan_pc, fan_error,
                   fan_user_ids, fan_results, fan_commits, route, dailyVars, aggVars,
                   wk_rows, wk_start, wk_pc, wk_local, wk_result, wk_table,
                   wk_attempts>>

\* task i: list_for_student raises, and with it classify_and_record_week
FanTaskFetchRaises(i) ==
    /\ fan_pc = "tasks"
    /\ i \in 1..Len(fan_task)
    /\ fan_task[i].pc = "fetch"
    /\ fan_task' = [fan_task EXCEPT ![i].pc = "raised"]
    /\ TaskException
    /\ UNCHANGED <<history, fan_repo, fan_start, fan_left,
                   fan_user_ids, fan_results, fan_commits, route, dailyVars, aggVars,
                   wk_rows, wk_start, wk_pc, wk_local, wk_result, wk_table,
                   wk_attempts>>

\* task i: weekly_repo.create returns the inserted row
FanTaskPersistCommits(i) ==
    /\ fan_pc = "tasks"
    /\ i \in 1..Len(fan_task)
    /\ fan_task[i].pc = "persist"
    /\ LET loc == fan_task[i].local
           row == WeeklyRowOf(fan_user_ids[i], fan_start, loc)
       IN /\ wk_table' = InsertWeekly(wk_table, row)
          /\ fan_task' = [fan_task EXCEPT ![i] =
                [pc |-> "done", local |-> loc,
                 result |-> [student_id |-> fan_user_ids[i],
                             verdict |-> WeekResult(loc, loc.reasons, <<row>>)]]]
    /\ fan_commits' = [fan_commits EXCEPT ![fan_user_ids[i]] = @ + 1]
    /\ UNCHANGED <<history, fan_repo, fan_start, fan_left, fan_pc, fan_error,
                   fan_user_ids, fan_results, route, dailyVars, aggVars,
                   wk_rows, wk_start, wk_pc, wk_local, wk_result,
                   wk_attempts>>

\* task i: weekly_repo.create raises, the verdict is returned all the same
FanTaskPersistRaises(i) ==
    /\ fan_pc = "tasks"
    /\ i \in 1..Len(fan_task)
    /\ fan_task[i].pc = "persist"
    /\ fan_task' = [fan_task EXCEPT ![i] =
          [pc |-> "done", local |-> fan_task[i].local,
           result |-> [student_id |-> fan_user_ids[i],
                       verdict |-> ExceptWeekPersist(fan_task[i].local)]]]
    /\ UNCHANGED <<history, fan_repo, fan_start, fan_left, fan_pc, fan_error,
                   fan_user_ids, fan_results, fan_commits, route, dailyVars, aggVars,
                   wk_rows, wk_start, wk_pc, wk_local, wk_result, wk_table,
                   wk_attempts>>

\* gather returns once every task has a raw result; exceptions are logged
\* and left out of the returned list
FanGatherReturns ==
    /\ fan_pc = "tasks"
    /\ \A i \in 1..Len(fan_task) : fan_task[i].pc \in {"done", "raised"}
    /\ fan_results' = KeepResults(fan_task, 1)
    /\ fan_pc' = "returned"
    /\ UNCHANGED <<history, fan_repo, fan_start, fan_left, fan_error,
                   fan_user_ids, fan_task, fan_commits, route, dailyVars, aggVars,
                   wk_rows, wk_start, wk_pc, wk_local, wk_result, wk_table,
                   wk_attempts>>

\* the labels the rows of earlier days are drawn from
HistoryLabels == {"InCrisis", "Thriving"}

\* a controller over any repository API, a table of at most MaxHistory rows
\* per student, NumWeeklyRuns triggers of classify_weekly_entries to come
FanInit ==
    /\ history \in [Students -> BoundedSeq(HistoryLabels, MaxHistory)]
    /\ fan_repo \in RepoApis
    /\ fan_start \in {1, 2}
    /\ fan_left = NumWeeklyRuns
    /\ fan_pc = "idle"
    /\ fan_error = "none"
    /\ fan_user_ids = << >>
    /\ fan_task = << >>
    /\ fan_results = << >>
    /\ fan_commits = [u \in UserIds |-> 0]
    /\ route = "none"
    /\ AggIdle
    /\ DailyInit
    /\ checkins = {}
    /\ wk_rows = << >> /\ wk_start = 1 /\ wk_pc = "idle" /\ wk_local = << >>
    /\ wk_result = << >> /\ wk_table = EmptyBag /\ wk_attempts = 0

FanNext ==
    \/ FanRepoLacksApi
    \/ FanListRaises
    \/ FanStart
    \/ FanGatherReturns
    \/ \E i \in 1..NumUsers :
          \/ FanTaskFetchReturns(i)
          \/ FanTaskFetchRaises(i)
          \/ FanTaskPersistCommits(i)
          \/ FanTaskPersistRaises(i)

SpecFan == FanInit /\ [][FanNext]_vars

\* ------------------------------------ daily and weekly runs, interleaved

\* one controller: one daily trigger and one weekly trigger, over a table
\* holding at most one row of an earlier day per student
AllInit ==
    /\ DailyInit
    /\ checkins \in SUBSET Students
    /\ AggIdle
    /\ history \in [Students -> BoundedSeq(HistoryLabels, 1)]
    /\ fan_repo \in RepoApis
    /\ fan_start = 1
    /\ fan_left = 1
    /\ fan_pc = "idle"
    /\ fan_error = "none"
    /\ fan_user_ids = << >>
    /\ fan_task = << >>
    /\ fan_results = << >>
    /\ fan_commits = [u \in UserIds |-> 0]
    /\ route = "none"
    /\ wk_rows = << >> /\ wk_start = 1 /\ wk_pc = "idle" /\ wk_local = << >>
    /\ wk_result = << >> /\ wk_table = EmptyBag /\ wk_attempts = 0

\* the steps of the daily run 1 and those of the weekly run
AllNext ==
    \/ Start(1)
    \/ MoodFetchRaises(1)
    \/ GatherReturns(1)
    \/ AcquireLock(1)
    \/ ClassifierReturns(1)
    \/ ClassifierRaises(1)
    \/ AnalyticsCommits(1)
    \/ AnalyticsRaises(1)
    \/ ClassificationCreate(1)
    \/ \E i \in 1..NumUsers :
          \/ JournalReturns(1, i)
          \/ JournalRaises(1, i)
          \/ GratitudeReturns(1, i)
          \/ GratitudeRaises(1, i)
          \/ FlipfeelReturns(1, i)
          \/ FlipfeelRaises(1, i)
    \/ FanNext

SpecAll == AllInit /\ [][AllNext]_vars

\* ------------------------------------------------------------- the routes

\* @router.post(...) of classification_route.py
Routes == {"/daily-scheduler", "/weekly-scheduler"}

\* a POST reaches the router: the handler of the route starts
Request(rt) ==
    /\ route = "none"
    /\ route' = rt
    /\ UNCHANGED <<dailyVars, weekVars>>

\* the steps of one call of clf_controller.classify_today_entries()
ClassifyTodayEntries(r) ==
    \/ Start(r)
    \/ MoodFetchRaises(r)
    \/ GatherReturns(r)
    \/ AcquireLock(r)
    \/ ClassifierReturns(r)
    \/ ClassifierRaises(r)
    \/ AnalyticsCommits(r)
    \/ AnalyticsRaises(r)
    \/ ClassificationCreate(r)
    \/ \E i \in 1..NumUsers :
          \/ JournalReturns(r, i)
          \/ JournalRaises(r, i)
          \/ GratitudeReturns(r, i)
          \/ GratitudeRaises(r, i)
          \/ FlipfeelReturns(r, i)
          \/ FlipfeelRaises(r, i)

\* run_daily_classification: `await clf_controller.classify_today_entries()`
RunDailyClassification ==
    /\ route = "/daily-scheduler"
    /\ ClassifyTodayEntries(1)

\* run_weekly_classification: `await clf_controller.classify_today_entries()`
RunWeeklyClassification ==
    /\ route = "/weekly-scheduler"
    /\ ClassifyTodayEntries(1)

\* the handler's await has ended: it answers 200, or 500 on an exception
HandlerDone == route # "none" /\ pc[1] \in {"returned", "raised"}

RouteNext ==
    \/ \E rt \in Routes : Request(rt)
    \/ RunDailyClassification
    \/ RunWeeklyClassification

SpecRoute == AllInit /\ [][RouteNext]_vars


\* ------------------------------------------------------ claims, daily run

\* the features build_model_input yields for user u (the session fetch
\* of the user having succeeded or not)
FeaturesOf(u) == {ModelInputItem(u, ok).model_input : ok \in BOOLEAN}

\* items (run, position) whose analytics write has committed
Committed(R) ==
    {p \in R \X (1..NumUsers) :
        \/ /\ p[2] <= Len(outcome[p[1]])
           /\ outcome[p[1]][p[2]].analytics = "ok"
        \/ /\ pc[p[1]] = "classification"
           /\ p[2] = Len(outcome[p[1]]) + 1}

\* items (run, position) whose classification write has committed
ClassCommitted(R) ==
    {p \in R \X (1..NumUsers) :
        /\ p[2] <= Len(outcome[p[1]])
        /\ outcome[p[1]][p[2]].classification = "ok"}

\* C1: whatever the number of concurrent classify_today_entries calls, at
\* most one classify_user call is in progress, and it is the lock holder's.
C1_MutualExclusion ==
    /\ Cardinality(active) <= 1
    /\ \A r \in active : lock = r /\ pc[r] = "classifying"

\* a run waits for the lock while another run's classifier call executes
C1_Witness ==
    \E r1, r2 \in Runs : r1 \in active /\ r2 # r1 /\ pc[r2] = "wantlock"

\* C2: for every completion order of the feature-building tasks, position
\* i of the batch, of the classifier results, of the returned list and of
\* the persistence calls all belong to the i-th user id.
C2_BatchAlignment ==
    /\ \A r \in Runs : \A i \in 1..Len(built[r]) :
          built[r][i] # NoInput =>
             /\ built[r][i].user_id = user_ids[r][i]
             /\ built[r][i].model_input \in FeaturesOf(user_ids[r][i])
    /\ \A r \in Runs : \A i \in 1..Len(final[r]) :
          /\ final[r][i].user_id = user_ids[r][i]
          /\ final[r][i].model_input \in FeaturesOf(user_ids[r][i])
          /\ final[r][i].prediction = Predict(final[r][i].model_input)
    /\ \A c \in created :
          /\ c.student_id = user_ids[c.run][c.idx]
          /\ \E f \in FeaturesOf(c.student_id) : c.classification = Predict(f)
    /\ \A row \in BagToSet(analytics) :
          \E u \in UserIds : \E f \in FeaturesOf(u) :
             /\ row.mood = f.mood /\ row.probs = f.probs
             /\ row.flipfeel = f.flipfeel
             /\ row.gratitude_flag = (f.gratitude_flag = 1)
             /\ row.classification = Predict(f)

\* a run whose tasks finished out of order has returned a full batch and
\* submitted the last user's classification
C2_Witness ==
    \E r \in Runs :
        /\ reordered[r]
        /\ pc[r] = "returned"
        /\ Len(final[r]) = NumUsers
        /\ \E c \in created : c.run = r /\ c.idx = NumUsers

\* C3: a failed analytics or classification write of one user never makes
\* the run raise; every user of the batch has the analytics write attempted
\* and, that write having succeeded, the classification write attempted;
\* every committed analytics row stays in the table.
C3_PersistIsolation ==
    /\ \A r \in Runs :
          /\ pc[r] = "raised" => error[r] # "none" /\ outcome[r] = << >>
          /\ (pc[r] = "returned" /\ clf_results[r] # << >>) =>
                /\ Len(outcome[r]) = Len(user_ids[r])
                /\ \A i \in 1..Len(outcome[r]) :
                      /\ outcome[r][i].analytics \in {"ok", "raised"}
                      /\ outcome[r][i].analytics = "ok" =>
                            /\ outcome[r][i].classification \in {"ok", "raised"}
                            /\ \E c \in created : c.run = r /\ c.idx = i
    /\ \A u \in UserIds : \A f \in FeaturesOf(u) :
          LET row == AnalyticsPayload([model_input |-> f,
                                       prediction |-> Predict(f)])
          IN CopiesIn(row, analytics) =
                Cardinality({p \in Committed(Runs) :
                                /\ user_ids[p[1]][p[2]] = u
                                /\ built[p[1]][p[2]].model_input = f})
    /\ \A u \in UserIds : \A l \in Labels :
          CopiesIn([student_id |-> u, classification |-> l], classifications)
             = Cardinality({p \in ClassCommitted(Runs) :
                               /\ user_ids[p[1]][p[2]] = u
                               /\ clf_results[p[1]][p[2]].prediction = l})

\* the middle user's write failed, the first and the last user's rows are in
C3_Witness ==
    \E r \in Runs :
        /\ pc[r] = "returned"
        /\ Len(outcome[r]) = NumUsers
        /\ outcome[r][1].analytics = "ok"
        /\ outcome[r][2].analytics = "raised"
        /\ outcome[r][NumUsers].analytics = "ok"
        /\ BagCardinality(analytics) >= 2

\* C4: the classifier call having succeeded, the returned list holds one
\* entry (features, prediction, probabilities) per user with a check-in
\* today, in batch order, whatever writes failed.
C4_ReturnIndependentOfPersistence ==
    \A r \in Runs :
        (pc[r] = "returned" /\ clf_results[r] # << >>) =>
            /\ user_ids[r] = SortedSeq(checkins)
            /\ Len(final[r]) = Cardinality(checkins)
            /\ \A i \in 1..Len(final[r]) :
                  final[r][i] =
                     [user_id |-> user_ids[r][i],
                      model_input |-> built[r][i].model_input,
                      prediction |-> clf_results[r][i].prediction,
                      probabilities |-> clf_results[r][i].probabilities]

\* a run returned the full list although every one of its writes failed
C4_Witness ==
    \E r \in Runs :
        /\ pc[r] = "returned"
        /\ Len(final[r]) = NumUsers
        /\ \A i \in 1..NumUsers : outcome[r][i].analytics = "raised"

\* C5: a raising classifier call makes the run raise: it returns no list,
\* and no analytics or classification write of that run is made.
C5_ClassifierFailureAborts ==
    \A r \in Runs :
        error[r] = "classifier" =>
            /\ pc[r] = "raised"
            /\ final[r] = << >>
            /\ outcome[r] = << >>
            /\ \A c \in created : c.run # r
            /\ BagCardinality(analytics) = Cardinality(Committed(Runs \ {r}))
            /\ BagCardinality(classifications) =
                  Cardinality(ClassCommitted(Runs \ {r}))

\* one run's classifier call raised while another run wrote its rows
C5_Witness ==
    \E r1, r2 \in Runs :
        /\ error[r1] = "classifier"
        /\ pc[r2] = "returned"
        /\ BagCardinality(analytics) = NumUsers

\* C6: a failure that concerns one user only (the journal or the gratitude
\* fetch raising in build_model_input) does not make the daily run raise.
C6_UserFetchFailureIsOmission ==
    \A r \in Runs : error[r] \in {"journal", "gratitude"} => pc[r] # "raised"

\* C7: every StudentClassification row submitted for persistence carries
\* is_flagged = TRUE exactly for the predictions "InCrisis" and "Struggling".
C7_FlagSubmitted ==
    \A c \in created : c.is_flagged = IsFlagged(c.classification)

\* C8: with no check-in today the run returns the empty list; the lock is
\* never taken, the classifier never called, no row written.
C8_EmptyDay ==
    checkins = {} =>
        /\ lock = NoRun /\ active = {}
        /\ analytics = EmptyBag /\ classifications = EmptyBag
        /\ created = {}
        /\ \A r \in Runs :
              /\ pc[r] \in {"idle", "returned", "raised"}
              /\ pc[r] = "raised" => error[r] = "checkins"
              /\ final[r] = << >> /\ clf_results[r] = << >>

C8_Witness ==
    checkins = {} /\ \A r \in Runs : pc[r] = "returned" /\ final[r] = << >>


\* C21: the two writes of a user are separate commits in a fixed order:
\* classification_repo.create is called only once the analytics write of
\* the same item has committed, a failed analytics write skips it, and a
\* committed analytics row stays when the classification write fails; no
\* StudentClassification row exists without the analytics row of its item.
C21_AnalyticsBeforeClassification ==
    /\ ClassCommitted(Runs) \subseteq Committed(Runs)
    /\ \A c \in created : <<c.run, c.idx>> \in Committed(Runs)
    /\ BagCardinality(classifications) <= BagCardinality(analytics)
    /\ \A r \in Runs : \A i \in 1..Len(outcome[r]) :
          /\ outcome[r][i].analytics = "raised"
                => outcome[r][i].classification = "skipped"
          /\ outcome[r][i].analytics = "ok"
                => /\ BagIn(AnalyticsPayload(final[r][i]), analytics)
                   /\ \E c \in created : c.run = r /\ c.idx = i

\* the analytics row of a user is stored, the classification write of the
\* same item has failed, no StudentClassification row exists
C21_Witness ==
    \E r \in Runs :
        /\ Len(outcome[r]) >= 1
        /\ outcome[r][1] = [analytics |-> "ok", classification |-> "raised"]
        /\ BagIn(AnalyticsPayload(final[r][1]), analytics)
        /\ classifications = EmptyBag

\* run r has issued a persistence write (analytics or classification)
Wrote(r) ==
    \/ outcome[r] # << >>
    \/ pc[r] \in {"analytics", "classification"}
    \/ \E c \in created : c.run = r

\* C22: a run with at least one check-in invokes the classifier exactly
\* once: the call starts only when gather has returned every user's input,
\* its batch holds one feature vector per distinct user with a check-in,
\* no persistence write of the run precedes its return, and a run that has
\* left the classifier call never enters it again.
C22_ClassifierOncePerRun ==
    /\ [](\A r \in Runs :
            /\ r \in active =>
                  /\ pc[r] = "classifying"
                  /\ Len(built[r]) = Cardinality(checkins)
                  /\ \A i \in 1..Len(built[r]) : built[r][i] # NoInput
                  /\ {built[r][i].user_id : i \in 1..Len(built[r])} = checkins
                  /\ ~Wrote(r)
            /\ Wrote(r) => Len(clf_results[r]) = Cardinality(checkins)
            /\ (pc[r] = "returned" /\ checkins # {})
                  => Len(clf_results[r]) = Cardinality(checkins))
    /\ [][\A r \in Runs :
            /\ (r \in active' /\ r \notin active)
                  => /\ pc[r] = "wantlock"
                     /\ clf_results[r] = << >>
                     /\ error[r] = "none"
            /\ (r \in active /\ r \notin active')
                  => pc'[r] \in {"analytics", "raised"}
            /\ pc[r] \in {"analytics", "classification", "returned", "raised"}
                  => r \notin active']_vars

\* the classifier is running on the batch of all NumUsers users, built
\* out of order, and the run has written nothing
C22_Witness ==
    \E r \in Runs :
        /\ r \in active
        /\ reordered[r]
        /\ Len(InputBatch(built[r])) = NumUsers
        /\ ~Wrote(r)

\* the fetches of build_model_input(user_ids[r][i]) that have been started
\* and have not ended: the coroutine is suspended at one await
InFlight(r, i) ==
    IF pc[r] = "building" /\ i \in 1..Len(task[r])
          /\ task[r][i] \in {"journal", "gratitude", "flipfeel"}
    THEN {task[r][i]}
    ELSE {}

\* C23: feature assembly for one user has two of its three fetches
\* (journal entries, gratitude presence, session records) in flight at the
\* same time in some state of a run.
C23_FetchesOverlap ==
    <>(\E r \in Runs : \E i \in 1..NumUsers : Cardinality(InFlight(r, i)) >= 2)

\* C26: a run whose classifier call raised does not keep the model lock,
\* and every run that waits for the lock (whether it came to wait before or
\* after another run's classifier call failed) eventually acquires it and
\* invokes the classifier.
C26_LockReleasedOnFailure ==
    /\ [](\A r \in Runs : pc[r] = "raised" => lock # r)
    /\ \A r \in Runs : (pc[r] = "wantlock") ~> (pc[r] = "classifying")

\* the classifier call of one run has raised and another run holds the
\* lock and is in its classifier call
C26_Witness ==
    \E r1, r2 \in Runs :
        /\ pc[r1] = "raised" /\ error[r1] = "classifier"
        /\ pc[r2] = "classifying" /\ lock = r2

\* C27: the model lock is held only while a classifier call is in flight:
\* its holder is the run inside the call, and no run that is fetching
\* signals, waiting, persisting or finished holds it.
C27_LockOnlyAroundClassifier ==
    /\ \A r \in Runs : lock = r <=> pc[r] = "classifying"
    /\ lock # NoRun <=> active # {}
    /\ \A r \in Runs :
          pc[r] \in {"idle", "building", "wantlock", "analytics",
                     "classification", "returned", "raised"} => lock # r

\* one run is persisting (an analytics row of it is stored) while the other
\* is inside its classifier call
C27_Witness ==
    \E r1, r2 \in Runs :
        /\ pc[r1] = "classification"
        /\ analytics # EmptyBag
        /\ pc[r2] = "classifying" /\ lock = r2

\* both runs are building features at the same time, each with a fetch in
\* flight
C27_BuildConcurrently ==
    \E r1, r2 \in Runs :
        /\ r1 # r2
        /\ InFlight(r1, 1) # {} /\ InFlight(r2, 1) # {}
        /\ lock = NoRun

\* the runs that have ended with the analytics row of user u stored
RunsStored(u) ==
    {r \in Runs : /\ pc[r] = "returned"
                  /\ \E i \in 1..Len(outcome[r]) :
                        /\ user_ids[r][i] = u
                        /\ outcome[r][i].analytics = "ok"}

\* StudentClassification rows of user u
RowsOf(u) ==
    LET mine == {x \in BagToSet(classifications) : x.student_id = u}
    IN BagCardinality([x \in mine |-> classifications[x]])

\* C30: the daily run has no per-user-day deduplication: k runs of the
\* same day that have stored their results leave k StudentAnalytics rows
\* and k StudentClassification rows for each of their users.
C30_RowPerRun ==
    /\ BagCardinality(analytics) = Cardinality(Committed(Runs))
    /\ \A u \in UserIds : RowsOf(u) = Cardinality(RunsStored(u))

\* ---------------------------------------------------- weekly rule engine

\* classify_and_record_week called for one student whose table rows and
\* window are any of the bounded ones; the daily runs stay untriggered
WeekInit ==
    /\ wk_rows \in BoundedSeq(Labels, MaxLabels)
    /\ wk_start \in {1, 2}
    /\ wk_pc = "fetch"
    /\ wk_local = << >>
    /\ wk_result = << >>
    /\ wk_table = EmptyBag
    /\ wk_attempts = 0
    /\ AggIdle
    /\ FanIdle
    /\ DailyInit
    /\ checkins = {}

WeekNext ==
    \/ WeekFetchReturns
    \/ WeekFetchRaises
    \/ WeekPersistCommits
    \/ WeekPersistRaises

SpecWeek == WeekInit /\ [][WeekNext]_vars

\* A student with a long history: older InCrisis rows followed by up to
\* LookbackLimit + 1 Thriving rows, one row per unit of time.
LongHistories ==
    {[k \in 1..(a + b) |-> IF k <= a THEN "InCrisis" ELSE "Thriving"] :
        a \in 0..MaxLabels, b \in 0..(LookbackLimit + 1)}

LookbackInit ==
    /\ wk_rows \in LongHistories
    /\ wk_start \in {1, 2}
    /\ wk_pc = "fetch"
    /\ wk_local = << >>
    /\ wk_result = << >>
    /\ wk_table = EmptyBag
    /\ wk_attempts = 0
    /\ AggIdle
    /\ FanIdle
    /\ DailyInit
    /\ checkins = {}

SpecLookback == LookbackInit /\ [][WeekNext]_vars

\* ------------------------------------------- claims, weekly rule engine

\* the labels of the student's rows inside the window, oldest first
WindowLabels ==
    LET inside == SelectSeq(StudentRows(wk_rows),
                            LAMBDA row : /\ wk_start <= row.classified_at
                                         /\ row.classified_at < WeekEnd)
    IN [k \in 1..Len(inside) |-> inside[k].classification]

NumberOf(l) == Cardinality({k \in 1..Len(WindowLabels) : WindowLabels[k] = l})

Sev(l) ==
    CASE l = "Excelling" -> 0
      [] l = "Thriving" -> 1
      [] l = "Struggling" -> 2
      [] l = "InCrisis" -> 3

\* the k-th label from the end, k = 1 the most recent
FromEnd(k) == WindowLabels[Len(WindowLabels) + 1 - k]

AppliesR1 == NumberOf("InCrisis") >= 2
AppliesR2 == NumberOf("Struggling") >= 4
AppliesR3 ==
    /\ Len(WindowLabels) >= 3
    /\ Sev(FromEnd(3)) < Sev(FromEnd(2))
    /\ Sev(FromEnd(2)) < Sev(FromEnd(1))
AppliesR4 ==
    /\ NumberOf("InCrisis") + NumberOf("Struggling") >= 3
    /\ FromEnd(1) \in {"Struggling", "InCrisis"}
AppliesR5 ==
    /\ Len(WindowLabels) >= 3
    /\ \A k \in 1..3 : FromEnd(k) \in {"Thriving", "Excelling"}

RulePrefixed(reasons) ==
    SelectSeq(reasons, LAMBDA x : x \in {ReasonR6, ReasonR1, ReasonR2,
                                         ReasonR3, ReasonR4, ReasonR5})

\* C9: the returned flagged is TRUE exactly when R5 does not apply and one
\* of R1 (>= 2 InCrisis), R2 (>= 4 Struggling), R3 (last three labels of
\* strictly increasing severity), R4 (>= 3 InCrisis or Struggling, the last
\* label one of them) applies.
C9_FlagVerdict ==
    wk_pc = "done" =>
        wk_result.flagged =
            (~AppliesR5 /\ (AppliesR1 \/ AppliesR2 \/ AppliesR3 \/ AppliesR4))

\* a week flagged by the trend rule alone
C9_Witness ==
    /\ wk_pc = "done"
    /\ wk_result.flagged
    /\ AppliesR3 /\ ~AppliesR1 /\ ~AppliesR2 /\ ~AppliesR4

\* C10: when the last three labels all lie in {Thriving, Excelling}, the
\* returned flagged is FALSE and the reasons hold exactly one rule entry,
\* the R5 one, whichever of R6, R1, R2 fired before; a persist_error reason
\* appended afterwards stays, after it.
C10_R5Override ==
    (wk_pc = "done" /\ AppliesR5) =>
        /\ wk_result.flagged = FALSE
        /\ RulePrefixed(wk_result.reasons) = <<ReasonR5>>
        /\ wk_result.reasons =
              IF wk_result.persisted_row = NoRow
              THEN <<ReasonR5, ReasonPersistError>>
              ELSE <<ReasonR5>>

\* R2 had fired (four Struggling days), then three good days; the insert
\* failed
C10_Witness ==
    /\ wk_pc = "done"
    /\ AppliesR5 /\ AppliesR2
    /\ wk_result.persisted_row = NoRow

InSeq(x, seq) == \E k \in 1..Len(seq) : seq[k] = x

\* the labels that occur most often in the window
TopLabels ==
    LET n == [l \in Labels |-> NumberOf(l)]
    IN {l \in Labels : n[l] > 0 /\ \A m \in Labels : n[m] <= n[l]}

ScenarioWeek == <<"InCrisis", "InCrisis", "Excelling", "Struggling", "Struggling">>

\* the fixed order of the reasons
ReasonOrder ==
    <<ReasonR6, ReasonR1, ReasonR2, ReasonR3, ReasonR4, ReasonR5,
      ReasonPersistError>>

\* C25: the returned reasons list has no duplicate and is a subsequence of
\* [R6, R1, R2, R3, R4, R5, persist_error]: every reason is one of the
\* seven and the positions in that order strictly increase along the list,
\* so a persist_error reason is last.
C25_ReasonsOrdered ==
    wk_pc = "done" =>
        \E pos \in [1..Len(wk_result.reasons) -> 1..Len(ReasonOrder)] :
            /\ \A k \in 1..Len(wk_result.reasons) :
                  wk_result.reasons[k] = ReasonOrder[pos[k]]
            /\ \A j, k \in 1..Len(wk_result.reasons) :
                  j < k => pos[j] < pos[k]

\* R1, R2, R3 and R4 all fire and the write fails: five reasons
C25_Witness ==
    /\ wk_pc = "done"
    /\ wk_result.reasons =
          <<ReasonR1, ReasonR2, ReasonR3, ReasonR4, ReasonPersistError>>

\* C28: R5 is mutually exclusive with R3 and with R4: whenever R5 fires on
\* the week's last three labels, neither R3 nor R4 fires on the same week,
\* so the flag R5 clears was set by R1 or R2 only; the week is returned
\* unflagged.
C28_R5ExcludesR3R4 ==
    wk_pc = "done" =>
        LET blank == [flag |-> FALSE, review |-> FALSE, reasons |-> << >>]
            last3 == wk_local.last3
            last3_sev == [k \in 1..Len(last3) |-> Severity(last3[k])]
            r3 == RuleR3(blank, last3_sev)
            r4 == RuleR4(blank, wk_local.count_in_crisis,
                         wk_local.count_struggling, last3, WindowLabels)
            r5 == RuleR5(blank, last3)
        IN /\ (r5.reasons # << >>) <=> AppliesR5
           /\ r3.flag <=> AppliesR3
           /\ r4.flag <=> AppliesR4
           /\ r5.reasons # << >> =>
                 /\ ~r3.flag /\ ~r4.flag
                 /\ wk_result.flagged = FALSE
                 /\ ~InSeq(ReasonR3, wk_local.reasons)
                 /\ ~InSeq(ReasonR4, wk_local.reasons)

\* two InCrisis days followed by three good entries: R1 had set the flag,
\* R5 cleared it, the row is stored
C28_Witness ==
    /\ wk_pc = "done"
    /\ WindowLabels =
          <<"InCrisis", "InCrisis", "Thriving", "Excelling", "Thriving">>
    /\ wk_result.flagged = FALSE
    /\ wk_result.reasons = <<ReasonR5>>
    /\ wk_result.persisted_row # NoRow

\* the rows of the student inside the window: their positions in wk_rows
InsideWindow == {k \in 1..Len(wk_rows) : wk_start <= k /\ k < WeekEnd}

\* the rows list_for_student returns: the LookbackLimit most recent
MostRecent == {k \in 1..Len(wk_rows) : k > Len(wk_rows) - LookbackLimit}

\* C29 (as stated): every row of the student inside [week_start, week_end)
\* contributes to total_valid_days and the counters, whatever the number
\* of rows stored.
C29_EveryWindowRowCounts ==
    wk_pc \in {"persist", "done"} =>
        /\ wk_local.total_valid_days = Cardinality(InsideWindow)
        /\ wk_local.count_in_crisis =
              Cardinality({k \in InsideWindow : wk_rows[k] = "InCrisis"})
        /\ wk_local.count_struggling =
              Cardinality({k \in InsideWindow : wk_rows[k] = "Struggling"})

\* C29 (amended): a row inside the window contributes exactly when it is
\* among the LookbackLimit most recent rows of the student; all rows inside
\* the window contribute when the student has at most LookbackLimit rows
\* with classified_at >= week_start.
C29_WindowRowsWithinLookback ==
    wk_pc \in {"persist", "done"} =>
        LET seen == InsideWindow \cap MostRecent
        IN /\ wk_local.total_valid_days = Cardinality(seen)
           /\ wk_local.count_in_crisis =
                 Cardinality({k \in seen : wk_rows[k] = "InCrisis"})
           /\ wk_local.count_struggling =
                 Cardinality({k \in seen : wk_rows[k] = "Struggling"})
           /\ wk_local.dominant \in {None} \cup {wk_rows[k] : k \in seen}
           /\ (wk_local.dominant = None) <=> (seen = {})
           /\ Len(wk_rows) - wk_start + 1 <= LookbackLimit
                 => wk_local.total_valid_days = Cardinality(InsideWindow)

\* more rows than the lookback: some rows inside the window are counted,
\* others are not
C29_Witness ==
    /\ wk_pc = "done"
    /\ Len(wk_rows) > LookbackLimit
    /\ 0 < wk_result.total_valid_days
    /\ wk_result.total_valid_days < Cardinality(InsideWindow)

\* C11: the returned dominant label is the most frequent label of the
\* window, among labels of equal top frequency the one of the latest
\* entry carrying any of them, and null for an empty window; the week
\* [InCrisis, InCrisis, Excelling, Struggling, Struggling] gives
\* count_in_crisis = 2, the R1 reason, flagged and dominant Struggling.
C11_Dominant ==
    wk_pc = "done" =>
        LET dom == wk_result.dominant_classification
            window == WindowLabels
            top == TopLabels
        IN /\ window = << >> => dom = None
           /\ window # << >> =>
                 /\ dom \in top
                 /\ \E k \in 1..Len(window) :
                       /\ window[k] = dom
                       /\ \A j \in (k + 1)..Len(window) : window[j] \notin top
           /\ window = ScenarioWeek =>
                 /\ wk_result.count_in_crisis = 2
                 /\ InSeq(ReasonR1, wk_result.reasons)
                 /\ wk_result.flagged
                 /\ dom = "Struggling"

\* the scenario week itself, InCrisis and Struggling tied at two
C11_Witness ==
    /\ wk_pc = "done"
    /\ WindowLabels = ScenarioWeek
    /\ NumberOf("InCrisis") = NumberOf("Struggling")
    /\ wk_result.dominant_classification = "Struggling"

\* C12 as stated: review_for_missing is TRUE exactly when fewer than four
\* labels lie in the window, the R6 reason is then among the returned
\* reasons, and R6 alone never flags.
C12_R6ReasonAlways ==
    wk_pc = "done" =>
        /\ wk_result.review_for_missing = (Len(WindowLabels) < 4)
        /\ wk_result.review_for_missing => InSeq(ReasonR6, wk_result.reasons)
        /\ (~AppliesR1 /\ ~AppliesR2 /\ ~AppliesR3 /\ ~AppliesR4)
              => ~wk_result.flagged

\* C12, amended: review_for_missing is TRUE exactly when fewer than four
\* labels lie in the window; the R6 reason is among the returned reasons
\* exactly when that is so and R5 does not apply (R5 removes it with the
\* other rule reasons); R6 alone never flags.
C12_R6Independent ==
    wk_pc = "done" =>
        /\ wk_result.review_for_missing = (Len(WindowLabels) < 4)
        /\ InSeq(ReasonR6, wk_result.reasons)
              = (Len(WindowLabels) < 4 /\ ~AppliesR5)
        /\ (~AppliesR1 /\ ~AppliesR2 /\ ~AppliesR3 /\ ~AppliesR4)
              => ~wk_result.flagged

\* three good days only: review_for_missing is set, the R6 reason is gone
C12_Witness ==
    /\ wk_pc = "done"
    /\ Len(WindowLabels) = 3 /\ AppliesR5
    /\ wk_result.review_for_missing
    /\ ~InSeq(ReasonR6, wk_result.reasons)

\* C13: a failed insert of the weekly row does not make the function
\* raise: it returns the dominant label, counters, flagged and
\* review_for_missing of the computation, persisted_row null and the
\* persist_error reason last; weekly_repo.create is called once per
\* completed invocation, whatever the verdict and the dominant label.
C13_PersistFailureKeepsVerdict ==
    /\ wk_pc \in {"fetch", "persist", "raised"} => wk_attempts = 0
    /\ wk_pc = "raised" => wk_local = << >>
    /\ wk_pc = "done" =>
          /\ wk_attempts = 1
          /\ wk_result.persisted_row = NoRow =>
                /\ wk_table = EmptyBag
                /\ wk_result.dominant_classification =
                      (IF WindowLabels = << >> THEN None ELSE wk_local.dominant)
                /\ \/ wk_result.dominant_classification = None
                   \/ NumberOf(wk_result.dominant_classification) > 0
                /\ wk_result.count_in_crisis = NumberOf("InCrisis")
                /\ wk_result.count_struggling = NumberOf("Struggling")
                /\ wk_result.total_valid_days = Len(WindowLabels)
                /\ wk_result.flagged =
                      (~AppliesR5 /\ (AppliesR1 \/ AppliesR2 \/ AppliesR3
                                      \/ AppliesR4))
                /\ wk_result.review_for_missing = (Len(WindowLabels) < 4)
                /\ wk_result.reasons =
                      Append(wk_local.reasons, ReasonPersistError)

\* a flagged week whose insert failed
C13_Witness ==
    /\ wk_pc = "done"
    /\ wk_attempts = 1
    /\ wk_result.persisted_row = NoRow
    /\ wk_result.flagged
    /\ wk_result.dominant_classification = "InCrisis"

\* C16: the StudentWeeklyClassification row the invocation inserted holds
\* the flagged value the invocation returned.
C16_RowHoldsVerdict ==
    (wk_pc = "done" /\ wk_result.persisted_row # NoRow) =>
        \A row \in BagToSet(wk_table) : row.is_flagged = wk_result.flagged

\* --------------------------------- claims, _aggregate_wellness_probs

\* entry e holds a number under key k: e is a mapping, given as such or as
\* the JSON text of one
HasNumber(e, k) ==
    e.form = "object" /\ k \in DOMAIN e.map /\ e.map[k].num

\* the sum of the numbers under key k in the first m entries
RECURSIVE SumOf(_, _)
SumOf(k, m) ==
    IF m = 0 THEN 0
    ELSE SumOf(k, m - 1)
         + (IF HasNumber(ag_journals[m], k) THEN ag_journals[m].map[k].v ELSE 0)

\* the entries among the first m that hold a number under some key
Contributors(m) ==
    {i \in 1..m : \E k \in ALL_LABELS : HasNumber(ag_journals[i], k)}

ScenarioJournals ==
    <<[kind |-> "dict", form |-> "object",
       map |-> [k \in {"L1"} |-> [num |-> TRUE, v |-> 8]]],
      [kind |-> "dict", form |-> "object",
       map |-> [k \in {"L1", "L3"} |->
                   [num |-> TRUE, v |-> IF k = "L1" THEN 6 ELSE 2]]]>>

\* r is the number x (in tenths)
IsTenths(r, x) == r.d > 0 /\ r.n = x * r.d

\* C19: every key's value is its sum divided by the one count of entries
\* holding a number under at least one key, and 0 for every key when that
\* count is 0; {L1: 0.8}, {L1: 0.6, L3: 0.2} give p_anxiety 0.7,
\* p_depressed 0.1 and 0 for the other three keys.
C19_SharedCount ==
    ag_pc = "returned" /\ ag_result # << >> =>
        LET count == Cardinality(Contributors(Len(ag_journals)))
        IN /\ \A k \in ALL_LABELS :
                 LET r == ag_result[LABEL_TO_PKEY(k)]
                 IN /\ r.d > 0
                    /\ count = 0 => r.n = 0
                    /\ count # 0 =>
                          r.n * count = SumOf(k, Len(ag_journals)) * r.d
           /\ ag_journals = ScenarioJournals =>
                 /\ IsTenths(ag_result["p_anxiety"], 7)
                 /\ IsTenths(ag_result["p_depressed"], 1)
                 /\ \A pk \in {"p_normal", "p_suicidal", "p_stressed"} :
                       IsTenths(ag_result[pk], 0)

\* the scenario: 0.2 of the one entry holding L3 is divided by 2
C19_Witness ==
    /\ ag_pc = "returned"
    /\ ag_journals = ScenarioJournals
    /\ ag_result["p_depressed"] = [n |-> 2, d |-> 2]

\* C20 as stated: the returned values are >= 0, and they are 0 exactly
\* when no entry held a number under any key; undecodable text never makes
\* the function raise.
C20_ZeroExactlyWhenNone ==
    /\ ag_pc = "raised" => ag_journals[ag_i + 1].form = "array"
    /\ ag_pc = "returned" /\ ag_result # << >> =>
          /\ \A pk \in PKeys : ag_result[pk].d > 0 /\ ag_result[pk].n >= 0
          /\ (\A pk \in PKeys : ag_result[pk].n = 0)
                <=> Contributors(Len(ag_journals)) = {}

\* C20, amended: the returned values are >= 0 when no number in the
\* entries is negative; they are all 0 when no entry held a number under
\* any key (entries holding only zeros give 0 as well); an entry that is
\* undecodable text never makes the function raise and adds nothing to
\* any sum or to the count.
C20_NonNegative ==
    /\ ag_pc = "raised" => ag_journals[ag_i + 1].form = "array"
    /\ ag_pc = "loop" =>
          /\ \A k \in ALL_LABELS : ag_totals[k] = SumOf(k, ag_i)
          /\ ag_counted = Cardinality(Contributors(ag_i))
    /\ ag_pc = "returned" /\ ag_result # << >> =>
          /\ (\A i \in 1..Len(ag_journals) : \A k \in ALL_LABELS :
                  HasNumber(ag_journals[i], k) => ag_journals[i].map[k].v >= 0)
              => \A pk \in PKeys : ag_result[pk].d > 0 /\ ag_result[pk].n >= 0
          /\ Contributors(Len(ag_journals)) = {}
              => \A pk \in PKeys : ag_result[pk].n = 0

\* undecodable text followed by an entry holding 0.0: the entry is counted
\* and every value is 0
C20_Witness ==
    /\ ag_pc = "returned" /\ ag_result # << >>
    /\ Len(ag_journals) = 2
    /\ ag_journals[1].form = "malformed"
    /\ Contributors(2) = {2}
    /\ ag_counted = 1
    /\ \A pk \in PKeys : ag_result[pk].n = 0

\* ------------------------------------- claims, classify_weekly_entries

\* students with a row of classified_at in [week_start, week_end)
StudentsInWindow ==
    {u \in UserIds :
        \E k \in 1..Len(HistoryOf(u)) : fan_start <= k /\ k < WeekEnd}

\* the students whose computation has not raised
Computed == {fan_user_ids[i] : i \in {j \in 1..Len(fan_task) :
                                         fan_task[j].pc = "done"}}

\* C14: an exception of one student's weekly computation does not make
\* classify_weekly_entries raise; once it has returned, every student of
\* the window has been computed to its end or has raised, the returned
\* list holds exactly the verdicts of the students that did not raise,
\* in user_ids order, and each inserted weekly row is in the table.
C14_StudentFailureIsolated ==
    /\ fan_pc = "raised" => fan_error \in {"runtime", "list"}
    /\ fan_pc = "returned" =>
          /\ Len(fan_user_ids) = Cardinality(StudentsInWindow)
          /\ {fan_user_ids[i] : i \in 1..Len(fan_user_ids)} = StudentsInWindow
          /\ \A i \in 1..Len(fan_task) : fan_task[i].pc \in {"done", "raised"}
          /\ Len(fan_results) = Cardinality(Computed)
          /\ {fan_results[k].student_id : k \in 1..Len(fan_results)} = Computed
          /\ \A k \in 1..Len(fan_results) :
                LET v == fan_results[k].verdict
                    u == fan_results[k].student_id
                IN /\ v.total_valid_days =
                         Cardinality({t \in 1..Len(HistoryOf(u)) : fan_start <= t})
                   /\ v.persisted_row # NoRow =>
                         /\ v.persisted_row[1].student_id = u
                         /\ BagIn(v.persisted_row[1], wk_table)
          /\ \A j, k \in 1..Len(fan_results) :
                j < k => \E a, b \in 1..Len(fan_user_ids) :
                            /\ a < b
                            /\ fan_user_ids[a] = fan_results[j].student_id
                            /\ fan_user_ids[b] = fan_results[k].student_id

\* one student raised, the other is in the returned list with its row
C14_Witness ==
    /\ fan_pc = "returned"
    /\ Len(fan_task) = 2
    /\ fan_task[1].pc = "raised"
    /\ fan_task[2].pc = "done"
    /\ Len(fan_results) = 1
    /\ fan_results[1].student_id = fan_user_ids[2]
    /\ fan_results[1].verdict.persisted_row # NoRow

\* C15: over the shipped StudentClassificationRepository a finished
\* classify_weekly_entries has obtained the rows of the window and has run
\* the rule engine once for each student having a row in it.
C15_ShippedRepoWeeklyRun ==
    (fan_repo = "shipped" /\ fan_pc \in {"returned", "raised"}) =>
        /\ fan_error # "runtime"
        /\ Len(fan_user_ids) = Cardinality(StudentsInWindow)
        /\ {fan_user_ids[i] : i \in 1..Len(fan_user_ids)} = StudentsInWindow

\* the StudentWeeklyClassification rows of student u and this week_start
WeeklyRowsOf(u) ==
    LET mine == {x \in BagToSet(wk_table) :
                    x.student_id = u /\ x.week_start = fan_start}
    IN BagCardinality([x \in mine |-> wk_table[x]])

\* C17: each successful insert of a weekly run adds a row: the table holds
\* as many rows for a (student, week_start) pair as inserts succeeded for
\* it, two after two runs.
C17_WeeklyRunsNotIdempotent ==
    \A u \in UserIds : WeeklyRowsOf(u) = fan_commits[u]

\* two runs, the insert for a student succeeding both times
C17_Witness ==
    /\ fan_left = 0
    /\ fan_pc = "returned"
    /\ \E u \in Students : fan_commits[u] = 2 /\ WeeklyRowsOf(u) = 2

\* ---------------------------------- claims, daily and weekly interleaved

\* C18: whatever the interleaving of the daily and the weekly run, no step
\* removes or changes a StudentAnalytics or StudentClassification row
\* (both tables only grow, the rows of earlier days stay as they are); a
\* step of the weekly run writes no table but StudentWeeklyClassification,
\* and a step of the daily run leaves that table alone.
C18_RowsOnlyGrow ==
    [][/\ analytics \sqsubseteq analytics'
       /\ classifications \sqsubseteq classifications'
       /\ history' = history
       /\ (fanVars' # fanVars \/ wk_table' # wk_table)
             => UNCHANGED <<analytics, classifications>>
       /\ dailyVars' # dailyVars => wk_table' = wk_table]_vars

\* both runs have written and returned: two analytics rows, a weekly row
C18_Witness ==
    /\ pc[1] = "returned" /\ fan_pc = "returned"
    /\ BagCardinality(analytics) = 2
    /\ wk_table # EmptyBag
    /\ \E u \in Students : history[u] # << >>

\* ------------------------------------------------------ claims, the routes

\* C24: a POST to /weekly-scheduler runs classify_weekly_entries: it
\* performs no daily run (no classifier call, no StudentAnalytics row, no
\* StudentClassification write), and once its handler has ended a weekly
\* verdict has been computed for every student with a classification in the
\* window.
C24_WeeklyRouteRunsWeekly ==
    route = "/weekly-scheduler" =>
        /\ active = {}
        /\ \A r \in Runs : clf_results[r] = << >> /\ error[r] # "classifier"
        /\ analytics = EmptyBag
        /\ classifications = EmptyBag
        /\ created = {}
        /\ HandlerDone => StudentsInWindow \subseteq Computed

====
